---- MODULE Spec2Model ----
(***************************************************************************)
(* Identity resolution, configuration loading and multi-window rate        *)
(* limiting of the chat proxy (lib/identity.ts, lib/rate-limiter.ts).      *)
(*                                                                         *)
(* Strings of the program are modelled as sequences of tokens so that      *)
(* concatenation, split(':') and startsWith are computed, not assumed.     *)
(* Times are epoch seconds, UTC, in the year 1970.                         *)
(***************************************************************************)
EXTENDS Integers, Sequences, FiniteSets, TLC

VARIABLES
    now,                 \* Date.now() / 1000, floored
    store,               \* the shared key-value store: key -> [count, expireAt]
    file,                \* config/rate-limits.json on disk
    cachedConfig,        \* identity.ts: let cachedConfig
    configLastModified,  \* identity.ts: let configLastModified
    envOk,               \* UPSTASH_REDIS_REST_URL and _TOKEN are set
    lanes,               \* how many requests the host runs at the same time
    req,                 \* per request slot: position and locals of applyRateLimit
    started,             \* number of requests started so far
    failures,            \* number of store failures so far
    ticks,               \* number of seconds elapsed since the initial state
    overlapped,          \* history: two requests have been in flight together
    hits,                \* history: requests that took a timestamp in a window
    allowedIn,           \* history: allowed results per window key
    lastIncr,            \* history: last completed pipeline per identity and window
    idReq,               \* identity resolution: the request examined last
    idRes,               \* identity resolution: what getIdentityKey returned
    verificationCache,   \* turnstile-verification.ts: const verificationCache
    turnstileEnv,        \* the TURNSTILE_* environment variables, as parsed
    gateCall,            \* the verification call in flight or made last
    lastCached,          \* history: when each identity was last recorded verified
    cfgCall,             \* history: the last call of the configuration provider
    adminLog,            \* history: the last administrative reset
    cleanupAt,           \* when the cleanup timer of the gate fires next
    storeSilent,         \* the store has stopped answering: calls stay pending
    hook,                \* useTurnstileToken in one mounted component
    adminView            \* history: the last getUserDetails call and its answer

vars == <<now, store, file, cachedConfig, configLastModified, envOk, lanes, req,
          started, failures, ticks, overlapped, hits, allowedIn, lastIncr,
          idReq, idRes, verificationCache, turnstileEnv, gateCall,
          lastCached, cfgCall, adminLog, cleanupAt, storeSilent, hook, adminView>>

\* the state of the verification gate and of the provider's call history
gateVars ==
    <<verificationCache, turnstileEnv, gateCall, lastCached, cfgCall, adminLog,
      cleanupAt, storeSilent, hook, adminView>>


(***************************************************************************)
(* Bounds of the model.                                                    *)
(***************************************************************************)
MaxRequests == 2          \* requests of a behaviour, one at a time
MaxFailures == 1          \* store failures of such a behaviour
MaxTicks == 1             \* seconds that pass in such a behaviour
MaxConcRequests == 2      \* the same three, with two requests in flight
MaxConcFailures == 1
MaxConcTicks == 1
MaxWrites == 1            \* rewrites of the configuration file
MaxGateTicks == 3         \* seconds that pass while the gate is exercised
MaxResets == 1            \* administrative resets of a behaviour
MaxGateIdles == 1         \* five-minute pauses while the gate is exercised
MaxFetches == 3           \* calls of fetchWithTurnstile
MaxHookTicks == 2         \* seconds that pass while the hook is exercised
MaxHookIdles == 1         \* five-minute pauses while the hook is exercised
MaxViews == 1             \* calls of getUserDetails

(***************************************************************************)
(* Small values.                                                           *)
(***************************************************************************)
Null == <<>>                      \* null, undefined and the empty string
Undefined == "<undefined>"        \* an optional string that is not set
NoConfig == [loaded |-> FALSE]    \* cachedConfig === null

Truthy(s) == s # Undefined /\ s # ""

IsPrefix(pre, s) ==
    /\ Len(pre) <= Len(s)
    /\ SubSeq(s, 1, Len(pre)) = pre

Max(a, b) == IF a >= b THEN a ELSE b

(***************************************************************************)
(* Configuration (identity.ts: ConfigSchema, loadConfig).                  *)
(***************************************************************************)
Methods == {"jwt-sub", "session-cookie", "ip"}
Windows == <<"minute", "hour", "day", "month">>
WindowSet == {"minute", "hour", "day", "month"}

MkConfig(order, secret, lim, routes) ==
    [identityOrder |-> order, jwtSecret |-> secret,
     limits |-> lim, routesInScope |-> routes]

MkLimits(mi, ho, da, mo) ==
    [minute |-> mi, hour |-> ho, day |-> da, month |-> mo]

\* the literal returned by the catch block of loadConfig
DefaultConfig ==
    MkConfig(<<"jwt-sub", "session-cookie", "ip">>, Undefined,
             MkLimits(10, 100, 1000, 30000),
             {<<"/", "api", "/", "proxy", "/", "projects">>,
              <<"/", "api", "/", "proxy", "/", "user">>})

\* ConfigSchema.parse succeeds: every method is one of the enum, and each
\* of the four limits is present and is a number (z.number(): any sign)
ConfigSchemaAccepts(content) ==
    /\ \A i \in DOMAIN content.identityOrder :
          content.identityOrder[i] \in Methods
    /\ WindowSet \subseteq DOMAIN content.limits
    /\ \A x \in WindowSet : content.limits[x] \in Int

\* a file is readable or not, parses or not, passes the schema or not
MkFile(st, content, mtime) ==
    [state |-> st, content |-> content, mtime |-> mtime]

FileStates == {"ok", "missing", "malformed", "invalid", "unreadable"}

\* loadConfig(): whether the call reads and parses the file
loadConfigReads(f, cached, lastMod) ==
    /\ f.state # "missing"
    /\ ~cached.loaded \/ f.mtime > lastMod

\* loadConfig(): the value returned and the module-level cache afterwards
loadConfig(f, cached, lastMod) ==
    IF f.state = "missing"
    THEN \* statSync throws
         [config |-> DefaultConfig, cached |-> cached, lastMod |-> lastMod]
    ELSE IF ~cached.loaded \/ f.mtime > lastMod
         THEN IF f.state = "ok"
              THEN [config |-> f.content,
                    cached |-> [loaded |-> TRUE, config |-> f.content],
                    lastMod |-> f.mtime]
              ELSE \* JSON.parse or ConfigSchema.parse throws
                   [config |-> DefaultConfig, cached |-> cached,
                    lastMod |-> lastMod]
         ELSE [config |-> cached.config, cached |-> cached,
               lastMod |-> lastMod]

(***************************************************************************)
(* Identity resolution (identity.ts).                                      *)
(***************************************************************************)
MkAuth(kind, sub, signedWith, expired) ==
    [kind |-> kind, sub |-> sub, signedWith |-> signedWith,
     expired |-> expired]

\* jose jwtVerify(token, secret): signature and expiry
jwtVerifyOk(auth, secret) ==
    /\ auth.kind = "jwt"
    /\ auth.signedWith = secret
    /\ ~auth.expired

\* extractJwtSubject, the config being the one loadConfig returns inside it
extractJwtSubject(auth, config) ==
    IF auth.kind \in {"none", "basic"}
    THEN Null
    ELSE IF Truthy(config.jwtSecret) /\ jwtVerifyOk(auth, config.jwtSecret)
         THEN auth.sub
         ELSE \* no secret, or verification failed: decodeJwt(token)
              IF auth.kind = "malformed" THEN Null ELSE auth.sub

MkSession(apiThrows, apiValue, hdrPresent, hdrValue, hdrBad) ==
    [apiThrows |-> apiThrows, apiValue |-> apiValue,
     hdrPresent |-> hdrPresent, hdrValue |-> hdrValue, hdrBad |-> hdrBad]

\* extractSessionId: cookies() first, then the Cookie header
extractSessionId(sess) ==
    IF ~sess.apiThrows /\ sess.apiValue # Null
    THEN sess.apiValue
    ELSE IF ~sess.hdrPresent THEN Null
         ELSE IF sess.hdrBad THEN Null     \* decodeURIComponent throws
              ELSE sess.hdrValue

MkIp(xff, realIp, cf, direct, hashOk) ==
    [xff |-> xff, realIp |-> realIp, cf |-> cf, direct |-> direct,
     hashOk |-> hashOk]

IpAddrs == {"1.1.1.1", "2.2.2.2", "127.0.0.1"}

\* SHA-256, hex, first 16 characters: a digest per address
HashHex16(ip) ==
    CASE ip = "1.1.1.1" -> "h16(1.1.1.1)"
      [] ip = "2.2.2.2" -> "h16(2.2.2.2)"
      [] OTHER -> "h16(127.0.0.1)"

\* a || b for strings
OrElse(a, b) == IF a # "" THEN a ELSE b

\* extractHashedIp
extractHashedIp(ip) ==
    LET first == IF Len(ip.xff) > 0 THEN ip.xff[1] ELSE ""
        addr == OrElse(first, OrElse(ip.realIp, OrElse(ip.cf,
                    OrElse(ip.direct, "127.0.0.1"))))
    IN  IF ip.hashOk THEN <<HashHex16(addr)>> ELSE <<"unknown">>

MkRequest(path, auth, sess, ip) ==
    [path |-> path, auth |-> auth, sess |-> sess, ip |-> ip]

\* an ip strategy that yields nothing when hashing fails
TryMethodIpMayFail(method, request, config) ==
    CASE method = "jwt-sub" ->
            LET jwtSub == extractJwtSubject(request.auth, config)
            IN  IF jwtSub # Null THEN <<"jwt", ":">> \o jwtSub ELSE Null
      [] method = "session-cookie" ->
            LET sessionId == extractSessionId(request.sess)
            IN  IF sessionId # Null THEN <<"session", ":">> \o sessionId
                ELSE Null
      [] OTHER -> IF request.ip.hashOk
                  THEN <<"ip", ":">> \o extractHashedIp(request.ip)
                  ELSE Null

\* one strategy of the waterfall: the key it returns, or Null
TryMethod(method, request, config) ==
    CASE method = "jwt-sub" ->
            LET jwtSub == extractJwtSubject(request.auth, config)
            IN  IF jwtSub # Null THEN <<"jwt", ":">> \o jwtSub ELSE Null
      [] method = "session-cookie" ->
            LET sessionId == extractSessionId(request.sess)
            IN  IF sessionId # Null THEN <<"session", ":">> \o sessionId
                ELSE Null
      [] OTHER -> <<"ip", ":">> \o extractHashedIp(request.ip)

\* a waterfall that keeps consulting after a strategy yielded: the last
\* yielding strategy wins
RECURSIVE WaterfallLastWins(_, _, _, _, _)
WaterfallLastWins(order, i, request, config, consulted) ==
    IF i > Len(order)
    THEN [key |-> <<"anonymous">>, consulted |-> consulted]
    ELSE LET k == TryMethod(order[i], request, config)
             rest == WaterfallLastWins(order, i + 1, request, config,
                                       Append(consulted, order[i]))
         IN  IF k # Null /\ rest.key = <<"anonymous">>
             THEN [key |-> k, consulted |-> rest.consulted]
             ELSE rest

\* a waterfall whose loop stops one strategy short
RECURSIVE WaterfallStopsShort(_, _, _, _, _)
WaterfallStopsShort(order, i, request, config, consulted) ==
    IF i >= Len(order)
    THEN [key |-> <<"anonymous">>, consulted |-> consulted]
    ELSE LET k == TryMethod(order[i], request, config)
         IN  IF k # Null
             THEN [key |-> k, consulted |-> Append(consulted, order[i])]
             ELSE WaterfallStopsShort(order, i + 1, request, config,
                                      Append(consulted, order[i]))

RECURSIVE Waterfall(_, _, _, _, _)
Waterfall(order, i, request, config, consulted) ==
    IF i > Len(order)
    THEN [key |-> <<"anonymous">>, consulted |-> consulted]
    ELSE LET k == TryMethod(order[i], request, config)
         IN  IF k # Null
             THEN [key |-> k, consulted |-> Append(consulted, order[i])]
             ELSE Waterfall(order, i + 1, request, config,
                            Append(consulted, order[i]))

\* getIdentityKey: the key, and the strategies consulted in order
getIdentityKey(request, config) ==
    Waterfall(config.identityOrder, 1, request, config, <<>>)

(***************************************************************************)
(* Windows (rate-limiter.ts: getWindowStart, getResetTime,                 *)
(* generateRedisKey).                                                      *)
(***************************************************************************)
Day == 86400

\* first second of each month of 1970, and of January 1971
MonthStarts ==
    {0 * Day, 31 * Day, 59 * Day, 90 * Day, 120 * Day, 151 * Day, 181 * Day,
     212 * Day, 243 * Day, 273 * Day, 304 * Day, 334 * Day, 365 * Day}

\* new Date(date.getFullYear(), date.getMonth(), 1).getTime() / 1000
MonthStart(timestamp) ==
    CHOOSE m \in MonthStarts :
        /\ m <= timestamp
        /\ \A m2 \in MonthStarts : m2 <= timestamp => m2 <= m

getWindowStart(windowType, timestamp) ==
    CASE windowType = "minute" -> timestamp - (timestamp % 60)
      [] windowType = "hour" -> timestamp - (timestamp % 3600)
      [] windowType = "day" -> timestamp - (timestamp % 86400)
      [] windowType = "month" -> MonthStart(timestamp)
      [] OTHER -> timestamp

ttlMap == [minute |-> 60, hour |-> 3600, day |-> 86400, month |-> 2592000]

getResetTime(windowType, windowStart) ==
    windowStart + (IF windowType \in DOMAIN ttlMap THEN ttlMap[windowType]
                   ELSE 60)

\* a key built from the kind of the identity only
generateRedisKeyByKind(identityKey, window, windowStart) ==
    <<"rate", ":", window, ":", ToString(windowStart), ":",
      Head(identityKey)>>

\* `rate:${window}:${windowStart}:${identityKey}`
generateRedisKey(identityKey, window, windowStart) ==
    <<"rate", ":", window, ":", ToString(windowStart), ":">> \o identityKey

\* identityKey.split(':')[0]
SplitFirst(identityKey) == Head(identityKey)

(***************************************************************************)
(* The store: INCR, EXPIRE and GET of a Redis-compatible store.  A key     *)
(* whose expiry time is reached is removed when the clock advances.        *)
(***************************************************************************)
NoTTL == -1

Put(s, k, v) == [x \in DOMAIN s \cup {k} |-> IF x = k THEN v ELSE s[x]]
Del(s, k) == [x \in DOMAIN s \ {k} |-> s[x]]
Lookup(f, k) == IF k \in DOMAIN f THEN f[k] ELSE 0
Bump(f, k) == Put(f, k, Lookup(f, k) + 1)

StoreIncrTo(s, k) ==
    IF k \in DOMAIN s
    THEN Put(s, k, [count |-> s[k].count + 1, expireAt |-> s[k].expireAt])
    ELSE Put(s, k, [count |-> 1, expireAt |-> NoTTL])

\* EXPIRE key seconds: a non-positive timeout deletes the key
StoreExpireTo(s, k, seconds, t) ==
    IF k \notin DOMAIN s THEN s
    ELSE IF seconds <= 0 THEN Del(s, k)
         ELSE Put(s, k, [count |-> s[k].count, expireAt |-> t + seconds])

StoreGetFrom(s, k) == IF k \in DOMAIN s THEN s[k].count ELSE 0

Purge(s, t) ==
    LET live == {k \in DOMAIN s : s[k].expireAt = NoTTL \/ s[k].expireAt > t}
    IN  [k \in live |-> s[k]]

(***************************************************************************)
(* Results of the limiter (rate-limiter.ts: RateLimitResult).              *)
(***************************************************************************)
MkResult(allowed, headers, remaining, resetTime, limit, window) ==
    [allowed |-> allowed, headers |-> headers, remaining |-> remaining,
     resetTime |-> resetTime, limit |-> limit, window |-> window]

NoResult == MkResult(TRUE, <<>>, 0, 0, 0, "")

\* checkWindowLimit, after pipeline.exec() resolved with count
WindowResult(window, limit, count, timestamp) ==
    LET resetTime == getResetTime(window, getWindowStart(window, timestamp))
        allowed == count <= limit
        remaining == Max(0, limit - count)
    IN  MkResult(allowed,
            ("X-RateLimit-Limit" :> ToString(limit)) @@
            ("X-RateLimit-Remaining" :> ToString(remaining)) @@
            ("X-RateLimit-Reset" :> ToString(resetTime)) @@
            ("X-RateLimit-Window" :> window) @@
            (IF allowed THEN <<>>
             ELSE ("Retry-After" :> ToString(resetTime - timestamp))),
            remaining, resetTime, limit, window)

\* a catch block that fails closed
WindowFailClosed(window, limit, timestamp) ==
    MkResult(FALSE,
        ("X-RateLimit-Limit" :> ToString(limit)) @@
        ("X-RateLimit-Remaining" :> "0") @@
        ("X-RateLimit-Reset" :> ToString(timestamp + 60)) @@
        ("X-RateLimit-Window" :> window) @@
        ("X-RateLimit-Error" :> "redis-unavailable"),
        0, timestamp + 60, limit, window)

\* checkWindowLimit, catch block
WindowFailOpen(window, limit, timestamp) ==
    MkResult(TRUE,
        ("X-RateLimit-Limit" :> ToString(limit)) @@
        ("X-RateLimit-Remaining" :> ToString(limit)) @@
        ("X-RateLimit-Reset" :> ToString(timestamp + 60)) @@
        ("X-RateLimit-Window" :> window) @@
        ("X-RateLimit-Error" :> "redis-unavailable"),
        limit, timestamp + 60, limit, window)

\* applyRateLimit, route out of scope
ExcludedResult(t) ==
    MkResult(TRUE, ("X-RateLimit-Scope" :> "excluded"),
             999999, t + 3600, 999999, "none")

\* applyRateLimit, outer catch block
SystemErrorResult(t) ==
    MkResult(TRUE, ("X-RateLimit-Error" :> "system-error"),
             999999, t + 3600, 999999, "error")

\* applyRateLimit, a window is exceeded
DeniedResult(result, identityKey) ==
    [result EXCEPT !.headers =
        ("X-RateLimit-Identity" :> SplitFirst(identityKey)) @@ @]

\* limits.minute || 999999
MinuteOrBig(limits) == IF limits.minute # 0 THEN limits.minute ELSE 999999

\* applyRateLimit, all windows passed
AllowedResult(limits, identityKey, actualRemaining, actualResetTime) ==
    MkResult(TRUE,
        ("X-RateLimit-Limit" :> ToString(MinuteOrBig(limits))) @@
        ("X-RateLimit-Remaining" :> ToString(actualRemaining)) @@
        ("X-RateLimit-Reset" :> ToString(actualResetTime)) @@
        ("X-RateLimit-Window" :> "minute") @@
        ("X-RateLimit-Identity" :> SplitFirst(identityKey)),
        actualRemaining, actualResetTime, MinuteOrBig(limits), "minute")

\* a scope test that compares the leading character of a pattern only
isRouteInScopeLoose(path, config) ==
    \E route \in config.routesInScope : IsPrefix(SubSeq(route, 1, 1), path)

\* isRouteInScope: routesInScope.some(route => path.startsWith(route))
isRouteInScope(path, config) ==
    \E route \in config.routesInScope : IsPrefix(route, path)

\* enforceRateLimit: what the caller of the middleware sees
enforceRateLimit(result) ==
    IF ~result.allowed THEN "RateLimitError" ELSE "headers"

(***************************************************************************)
(* A request slot: the locals of one applyRateLimit call.                  *)
(***************************************************************************)
Slots == {1, 2}

NoWin == [k |-> 0, ws |-> -1, ts |-> -1, count |-> -1, prev |-> -1]

NoAuth == MkAuth("none", Null, "", FALSE)
NoSession == MkSession(FALSE, Null, FALSE, Null, FALSE)
NoIp == MkIp(<<>>, "", "", "", TRUE)
NoRequest == MkRequest(Null, NoAuth, NoSession, NoIp)

IdleSlot ==
    [pc |-> "idle", request |-> NoRequest, inScope |-> FALSE,
     scopeRoutes |-> {}, identityKey |-> Null,
     limits |-> MkLimits(0, 0, 0, 0), w |-> 0, timestamp |-> 0,
     key |-> Null, count |-> 0, win |-> [x \in WindowSet |-> NoWin],
     failed |-> {}, ops |-> 0, fallbackReset |-> 0,
     result |-> NoResult, outcome |-> "none"]

InFlight(s) == s.pc \notin {"idle", "done"}

\* the call returns result
Finished(s, result) ==
    [s EXCEPT !.pc = "done", !.result = result,
              !.outcome = enforceRateLimit(result)]

\* a loop that enters every window, with a limit or not
NextWindowAll(limits, i) == IF i < Len(Windows) THEN i + 1 ELSE 0

\* for (const window of windows) if (limits[window]): the next such index
NextWindow(limits, i) ==
    LET later == {j \in (i + 1)..Len(Windows) : limits[Windows[j]] # 0}
    IN  IF later = {} THEN 0
        ELSE CHOOSE j \in later : \A j2 \in later : j <= j2

\* checkWindowLimit up to the await of pipeline.exec()
EnterWindow(s, j) ==
    IF ~envOk
    THEN \* getRedisClient throws, caught by applyRateLimit
         Finished(s, SystemErrorResult(now))
    ELSE LET window == Windows[j]
             windowStart == getWindowStart(window, now)
             hk == <<s.identityKey, window, windowStart>>
         IN  [s EXCEPT !.pc = "sent", !.w = j, !.timestamp = now,
                 !.key = generateRedisKey(s.identityKey, window, windowStart),
                 !.win[window] = [k |-> Lookup(hits, hk) + 1,
                                  ws |-> windowStart, ts |-> now,
                                  count |-> -1, prev |-> -1]]

\* applyRateLimit after the loop, up to the await of redis.get()
AfterLoop(s) ==
    IF s.limits.minute # 0
    THEN [s EXCEPT !.pc = "getSent", !.w = 0, !.timestamp = now,
             !.fallbackReset = now + 60,
             !.key = generateRedisKey(s.identityKey, "minute",
                                      getWindowStart("minute", now))]
    ELSE Finished(s, AllowedResult(s.limits, s.identityKey,
                                   MinuteOrBig(s.limits), now + 60))

\* the loop of applyRateLimit from index i on
Advance(s, i) ==
    LET j == NextWindow(s.limits, i)
    IN  IF j # 0 THEN EnterWindow(s, j) ELSE AfterLoop(s)

\* history: what a step of a slot adds to hits and allowedIn
HitsAfter(s2) ==
    IF s2.pc = "sent"
    THEN Bump(hits, <<s2.identityKey, Windows[s2.w], s2.win[Windows[s2.w]].ws>>)
    ELSE hits

RECURSIVE BumpAll(_, _)
BumpAll(f, ks) ==
    IF ks = {} THEN f
    ELSE LET k == CHOOSE x \in ks : TRUE
         IN  BumpAll(Bump(f, k), ks \ {k})

AllowedAfter(s2) ==
    IF s2.pc = "done" /\ s2.inScope /\ s2.result.allowed
    THEN BumpAll(allowedIn,
            {<<s2.identityKey, x, s2.win[x].ws>> :
                x \in {y \in WindowSet : s2.win[y].ws >= 0}})
    ELSE allowedIn

(***************************************************************************)
(* The verification gate (turnstile-verification.ts).  Date.now() is in    *)
(* milliseconds; the calls of the gate are made at whole seconds and a     *)
(* store call takes no clock time.                                         *)
(***************************************************************************)
DateNow(t) == t * 1000

MkTurnstileEnv(enabled, bypass, requiredIp, duration) ==
    [TURNSTILE_ENABLED |-> enabled,
     TURNSTILE_BYPASS_AUTHENTICATED |-> bypass,
     TURNSTILE_REQUIRED_FOR_IP_USERS |-> requiredIp,
     TURNSTILE_CACHE_DURATION |-> duration]

\* getTurnstileConfig(): cacheDuration in milliseconds
getTurnstileConfig(env) ==
    [enabled |-> env.TURNSTILE_ENABLED = "true",
     bypassAuthenticated |-> env.TURNSTILE_BYPASS_AUTHENTICATED # "false",
     requiredForIPUsers |-> env.TURNSTILE_REQUIRED_FOR_IP_USERS # "false",
     cacheDuration |-> env.TURNSTILE_CACHE_DURATION * 1000]

\* a gate that treats every identity without a token as anonymous
isTurnstileRequiredJwtOnly(identityKey, config) ==
    IF ~config.enabled THEN FALSE
    ELSE IF config.bypassAuthenticated /\ IsPrefix(<<"jwt", ":">>, identityKey)
         THEN FALSE
         ELSE config.requiredForIPUsers

\* a gate that never looks at whether it is switched on
isTurnstileRequiredIgnoresEnabled(identityKey, config) ==
    IF config.bypassAuthenticated /\ IsPrefix(<<"jwt", ":">>, identityKey)
    THEN FALSE
    ELSE IF config.bypassAuthenticated
              /\ IsPrefix(<<"session", ":">>, identityKey)
         THEN FALSE
    ELSE IF IsPrefix(<<"ip", ":">>, identityKey) /\ config.requiredForIPUsers
         THEN TRUE
    ELSE FALSE

isTurnstileRequired(identityKey, config) ==
    IF ~config.enabled THEN FALSE
    ELSE IF config.bypassAuthenticated /\ IsPrefix(<<"jwt", ":">>, identityKey)
         THEN FALSE
    ELSE IF config.bypassAuthenticated
              /\ IsPrefix(<<"session", ":">>, identityKey)
         THEN FALSE
    ELSE IF IsPrefix(<<"ip", ":">>, identityKey) /\ config.requiredForIPUsers
         THEN TRUE
    ELSE FALSE

\* `turnstile:verified:${identityKey}`
getCacheKey(identityKey) ==
    <<"turnstile", ":", "verified", ":">> \o identityKey

\* an in-process record that is still valid at the instant it expires
MemValidInclusive(cache, cacheKey, config, t) ==
    /\ cacheKey \in DOMAIN cache
    /\ DateNow(t) - cache[cacheKey].verifiedAt <= config.cacheDuration

\* the in-process record of cacheKey is younger than cacheDuration
MemValid(cache, cacheKey, config, t) ==
    /\ cacheKey \in DOMAIN cache
    /\ DateNow(t) - cache[cacheKey].verifiedAt < config.cacheDuration

\* what `await redis.exists(cacheKey)` comes to: "noredis" when
\* getTurnstileRedis() returns null, "error" when the call rejects
RedisExists(s, cacheKey, configured, fails) ==
    IF ~configured THEN "noredis"
    ELSE IF fails THEN "error"
    ELSE IF cacheKey \in DOMAIN s THEN "1" ELSE "0"

\* a check that takes a store error for a record
hasValidCachedVerificationFailOpen(identityKey, config, exists, cache, t) ==
    LET cacheKey == getCacheKey(identityKey)
    IN  IF exists \in {"1", "error"}
        THEN [answer |-> TRUE, cache |-> cache]
        ELSE IF cacheKey \notin DOMAIN cache
             THEN [answer |-> FALSE, cache |-> cache]
             ELSE IF MemValid(cache, cacheKey, config, t)
                  THEN [answer |-> TRUE, cache |-> cache]
                  ELSE [answer |-> FALSE, cache |-> Del(cache, cacheKey)]

\* hasValidCachedVerification: the answer and the in-process map afterwards
hasValidCachedVerification(identityKey, config, exists, cache, t) ==
    LET cacheKey == getCacheKey(identityKey)
    IN  IF exists = "1"
        THEN [answer |-> TRUE, cache |-> cache]
        ELSE IF cacheKey \notin DOMAIN cache
             THEN [answer |-> FALSE, cache |-> cache]
             ELSE IF MemValid(cache, cacheKey, config, t)
                  THEN [answer |-> TRUE, cache |-> cache]
                  ELSE [answer |-> FALSE, cache |-> Del(cache, cacheKey)]

MkGateResult(verified, required, bypassReason, error) ==
    [verified |-> verified, required |-> required,
     bypassReason |-> bypassReason, error |-> error]

NoGateResult == MkGateResult(FALSE, FALSE, Undefined, Undefined)

\* a gate that never looks at the verification cache
applyTurnstileVerificationNoCache(identityKey, config, exists, cache, t) ==
    IF ~config.enabled
    THEN [result |-> MkGateResult(TRUE, FALSE, "disabled", Undefined),
          cache |-> cache]
    ELSE IF ~isTurnstileRequired(identityKey, config)
    THEN [result |->
            MkGateResult(TRUE, FALSE,
                IF IsPrefix(<<"jwt", ":">>, identityKey)
                     \/ IsPrefix(<<"session", ":">>, identityKey)
                THEN "authenticated" ELSE "disabled", Undefined),
          cache |-> cache]
    ELSE [result |-> MkGateResult(FALSE, TRUE, Undefined,
                                  "Turnstile verification required"),
          cache |-> cache]

\* applyTurnstileVerification: the result and the in-process map afterwards
applyTurnstileVerification(identityKey, config, exists, cache, t) ==
    IF ~config.enabled
    THEN [result |-> MkGateResult(TRUE, FALSE, "disabled", Undefined),
          cache |-> cache]
    ELSE IF ~isTurnstileRequired(identityKey, config)
    THEN [result |->
            MkGateResult(TRUE, FALSE,
                IF IsPrefix(<<"jwt", ":">>, identityKey)
                     \/ IsPrefix(<<"session", ":">>, identityKey)
                THEN "authenticated" ELSE "disabled", Undefined),
          cache |-> cache]
    ELSE LET hv == hasValidCachedVerification(identityKey, config, exists,
                                              cache, t)
         IN  IF hv.answer
             THEN [result |-> MkGateResult(TRUE, TRUE, "cached", Undefined),
                   cache |-> hv.cache]
             ELSE [result |-> MkGateResult(FALSE, TRUE, Undefined,
                                           "Turnstile verification required"),
                   cache |-> hv.cache]

\* Math.max(1, Math.floor(cacheDuration / 1000))
ttlSeconds(config) == Max(1, config.cacheDuration \div 1000)

NoGateCall ==
    [op |-> "none", id |-> Null, at |-> 0, exists |-> "noredis",
     memBefore |-> FALSE, last |-> [known |-> FALSE, at |-> 0, here |-> FALSE],
     answer |-> FALSE, result |-> NoGateResult]

\* the latest recording of id as verified, as the history has it
LastRecorded(log, id) ==
    IF id \in DOMAIN log
    THEN [known |-> TRUE, at |-> log[id].at, here |-> log[id].here]
    ELSE [known |-> FALSE, at |-> 0, here |-> FALSE]

NoFile == MkFile("none", DefaultConfig, 0)

NoCfgCall ==
    [calls |-> 0, config |-> DefaultConfig, read |-> FALSE, file |-> NoFile,
     cachedBefore |-> NoConfig, prevConfig |-> DefaultConfig,
     prevFile |-> NoFile]

NoReset == [resets |-> 0, id |-> Null, at |-> 0]

\* no getUserDetails call yet
NoView ==
    [calls |-> 0, key |-> Null, hadCounter |-> FALSE, found |-> FALSE,
     identityKey |-> Null, identityType |-> Null, minute |-> 0]

\* const fiveMinutes = 5 * 60 * 1000, the age limit and the period of the
\* cleanup timer
fiveMinutes == 5 * 60 * 1000

\* the setInterval callback: the in-process map without the records that
\* are older than five minutes at time t
CleanupExpired(cache, t) ==
    [k \in {c \in DOMAIN cache :
                ~(DateNow(t) - cache[c].verifiedAt > fiveMinutes)}
        |-> cache[k]]

(***************************************************************************)
(* The client token hook (hooks/useTurnstileToken.ts).                     *)
(***************************************************************************)
\* no token: null, which is falsy like the empty string
NoToken == ""

\* the initial value of tokenState, and the value clearToken sets
EmptyTokenState == [token |-> NoToken, expiresAt |-> 0]

\* setToken: Date.now() + (5 * 60 * 1000)
tokenLifetime == 5 * 60 * 1000

setToken(token, t) == [token |-> token, expiresAt |-> DateNow(t) + tokenLifetime]

\* isTokenValid, on the tokenState its closure holds
isTokenValid(tokenState, t) ==
    IF tokenState.token = NoToken \/ tokenState.expiresAt = 0 THEN FALSE
    ELSE DateNow(t) < tokenState.expiresAt

\* getValidToken: the token returned, and whether clearToken is called
getValidToken(tokenState, t) ==
    IF isTokenValid(tokenState, t)
    THEN [token |-> tokenState.token, clears |-> FALSE]
    ELSE [token |-> NoToken, clears |-> tokenState.token # NoToken]

\* getTurnstileHeaders
getTurnstileHeaders(tokenState, t) ==
    LET token == getValidToken(tokenState, t).token
    IN  IF token = NoToken THEN <<>>
        ELSE ("X-Turnstile-Token" :> token) @@
             ("X-Turnstile-Action" :> "api-request")

NoFetch ==
    [sent |-> FALSE, headers |-> <<>>, at |-> 0, setAt |-> -1,
     current |-> NoToken]

\* tokenState: the state React holds; rendered: the tokenState captured by
\* the callbacks of the latest render; pending: a fetch awaits its response;
\* fetches: calls of fetchWithTurnstile so far; setAt, current: history, when
\* setToken was last called and with what, -1 and NoToken after a clear;
\* last: history, the request sent last
NoHook ==
    [tokenState |-> EmptyTokenState, rendered |-> EmptyTokenState,
     pending |-> FALSE, fetches |-> 0, setAt |-> -1, current |-> NoToken,
     last |-> NoFetch]

\* the gate and the histories before any call
InitGateIdle ==
    /\ verificationCache = <<>>
    /\ turnstileEnv = MkTurnstileEnv(Undefined, Undefined, Undefined, 300)
    /\ gateCall = NoGateCall
    /\ lastCached = <<>>
    /\ cfgCall = NoCfgCall
    /\ adminLog = NoReset
    /\ cleanupAt = fiveMinutes \div 1000
    /\ storeSilent = FALSE
    /\ hook = NoHook
    /\ adminView = NoView

(***************************************************************************)
(* Inputs of the limiter specification.                                    *)
(***************************************************************************)
Jan31 == 30 * Day     \* 1970-01-31T00:00:00Z, 30 days after the month began

StartTimes == {5, Jan31 - 1}

ScopedRoute == <<"/", "p">>

LimitChoices ==
    {MkLimits(1, 0, 0, 0), MkLimits(2, 1, 0, 0), MkLimits(0, 1, 0, 0),
     MkLimits(0, 0, 0, 1), MkLimits(0, 0, 1, 0), MkLimits(2, 2, 1, 2)}

ConcLimitChoices ==
    {MkLimits(1, 0, 0, 0), MkLimits(0, 1, 0, 0), MkLimits(0, 0, 0, 1)}

LimiterConfigs(limitChoices) ==
    {MkConfig(<<"session-cookie", "ip">>, Undefined, lim, {ScopedRoute}) :
        lim \in limitChoices}

SessionRequest(path, id) ==
    MkRequest(path, NoAuth, MkSession(TRUE, Null, TRUE, <<id>>, FALSE), NoIp)

LimiterRequests ==
    {SessionRequest(<<"/", "p", "x">>, id) : id \in {"a", "b"}}
        \cup {SessionRequest(<<"/", "q">>, "a")}

NoIdRes ==
    [returned |-> FALSE, key |-> Null, consulted |-> <<>>,
     config |-> DefaultConfig]

RequestCap == IF lanes = 1 THEN MaxRequests ELSE MaxConcRequests
FailureCap == IF lanes = 1 THEN MaxFailures ELSE MaxConcFailures
TickCap == IF lanes = 1 THEN MaxTicks ELSE MaxConcTicks

InitLimiterFiles(n, files) ==
    /\ now \in StartTimes
    /\ store = <<>>
    /\ file \in files
    /\ cachedConfig = NoConfig
    /\ configLastModified = 0
    /\ envOk \in BOOLEAN
    /\ lanes = n
    /\ req = [p \in Slots |-> IdleSlot]
    /\ started = 0
    /\ failures = 0
    /\ ticks = 0
    /\ overlapped = FALSE
    /\ hits = <<>>
    /\ allowedIn = <<>>
    /\ lastIncr = <<>>
    /\ idReq = NoRequest
    /\ idRes = NoIdRes
    /\ InitGateIdle

InitLimiter(n, limitChoices) ==
    InitLimiterFiles(n, {MkFile("ok", c, 1) :
                            c \in LimiterConfigs(limitChoices)})

\* requests one after the other
Init == InitLimiter(1, LimitChoices)

\* two requests at a time
InitConc == InitLimiter(2, ConcLimitChoices)

(***************************************************************************)
(* applyRateLimit, one action per stretch between two awaits, and the      *)
(* store's execution of the commands it sends.                             *)
(***************************************************************************)

\* applyRateLimit is called: scope check, identity, first window
Start(p, r) ==
    /\ req[p].pc \in {"idle", "done"}
    /\ \A q \in Slots : q < p => InFlight(req[q])
    /\ p <= lanes
    /\ started < RequestCap
    /\ LET lcA == loadConfig(file, cachedConfig, configLastModified)
           lcB == loadConfig(file, lcA.cached, lcA.lastMod)
           s0 == [IdleSlot EXCEPT !.request = r,
                     !.scopeRoutes = lcA.config.routesInScope]
           s1 == [s0 EXCEPT !.inScope = TRUE,
                     !.identityKey = getIdentityKey(r, lcB.config).key,
                     !.limits = lcB.config.limits]
           s2 == IF ~isRouteInScope(r.path, lcA.config)
                 THEN Finished(s0, ExcludedResult(now))
                 ELSE Advance(s1, 0)
       IN  /\ req' = [req EXCEPT ![p] = s2]
           /\ cachedConfig' = (IF s2.inScope THEN lcB.cached ELSE lcA.cached)
           /\ configLastModified' =
                 (IF s2.inScope THEN lcB.lastMod ELSE lcA.lastMod)
           /\ hits' = HitsAfter(s2)
           /\ allowedIn' = AllowedAfter(s2)
           /\ overlapped' = (overlapped \/
                 (InFlight(s2) /\ \E q \in Slots \ {p} : InFlight(req[q])))
    /\ started' = started + 1
    /\ UNCHANGED <<gateVars, now, store, file, envOk, lanes, failures, ticks, lastIncr,
                   idReq, idRes>>

\* the store executes the INCR of the pipeline
StoreIncr(p) ==
    /\ ~storeSilent
    /\ req[p].pc = "sent"
    /\ store' = StoreIncrTo(store, req[p].key)
    /\ req' = [req EXCEPT ![p].pc = "incrd",
                          ![p].count = store'[req[p].key].count,
                          ![p].ops = @ + 1]
    /\ UNCHANGED <<gateVars, now, file, cachedConfig, configLastModified, envOk, lanes,
                   started, failures, ticks, overlapped, hits, allowedIn,
                   lastIncr, idReq, idRes>>

\* a loop that honours a denial only at the last enforced window
AfterPipelineKeepsGoing(s, ok) ==
    LET window == Windows[s.w]
        limit == s.limits[window]
        result == IF ok
                  THEN WindowResult(window, limit, s.count, s.timestamp)
                  ELSE WindowFailOpen(window, limit, s.timestamp)
        lk == <<s.identityKey, window>>
        s1 == IF ok
              THEN [s EXCEPT !.win[window].count = s.count,
                             !.win[window].prev =
                                 IF lk \in DOMAIN lastIncr
                                 THEN lastIncr[lk] ELSE -1]
              ELSE [s EXCEPT !.failed = @ \cup {window}]
    IN  IF ~result.allowed /\ NextWindow(s.limits, s.w) = 0
        THEN Finished(s1, DeniedResult(result, s.identityKey))
        ELSE Advance(s1, s.w)

\* what follows pipeline.exec() in checkWindowLimit and in the loop of
\* applyRateLimit, once the store call of window s.w has settled
AfterPipeline(s, ok) ==
    LET window == Windows[s.w]
        limit == s.limits[window]
        result == IF ok
                  THEN WindowResult(window, limit, s.count, s.timestamp)
                  ELSE WindowFailOpen(window, limit, s.timestamp)
        lk == <<s.identityKey, window>>
        s1 == IF ok
              THEN [s EXCEPT !.win[window].count = s.count,
                             !.win[window].prev =
                                 IF lk \in DOMAIN lastIncr
                                 THEN lastIncr[lk] ELSE -1]
              ELSE [s EXCEPT !.failed = @ \cup {window}]
    IN  IF ~result.allowed
        THEN Finished(s1, DeniedResult(result, s.identityKey))
        ELSE Advance(s1, s.w)

\* what follows redis.get() in applyRateLimit
AfterGet(s, ok) ==
    LET actualRemaining ==
            IF ok THEN Max(0, s.limits.minute - s.count)
            ELSE MinuteOrBig(s.limits)
        actualResetTime ==
            IF ok
            THEN getResetTime("minute", getWindowStart("minute", s.timestamp))
            ELSE s.fallbackReset
        s1 == IF ok THEN s ELSE [s EXCEPT !.failed = @ \cup {"get"}]
    IN  Finished(s1, AllowedResult(s.limits, s.identityKey,
                                   actualRemaining, actualResetTime))

\* the store executes the EXPIRE of the pipeline and pipeline.exec()
\* resolves: the rest of checkWindowLimit, then the next window
StoreExpire(p) ==
    /\ ~storeSilent
    /\ req[p].pc = "incrd"
    /\ LET s == req[p]
           window == Windows[s.w]
           resetTime == getResetTime(window, s.win[window].ws)
           s2 == AfterPipeline([s EXCEPT !.ops = @ + 1], TRUE)
       IN  /\ store' = StoreExpireTo(store, s.key, resetTime - s.timestamp,
                                     now)
           /\ req' = [req EXCEPT ![p] = s2]
           /\ hits' = HitsAfter(s2)
           /\ allowedIn' = AllowedAfter(s2)
           /\ lastIncr' = Put(lastIncr, <<s.identityKey, window>>,
                              s.timestamp)
    /\ UNCHANGED <<gateVars, now, file, cachedConfig, configLastModified, envOk, lanes,
                   started, failures, ticks, overlapped, idReq, idRes>>

\* pipeline.exec() rejects (store error or timeout), before the INCR or
\* between the INCR and the EXPIRE: the catch block of checkWindowLimit
PipelineFail(p) ==
    /\ failures < FailureCap
    /\ ~storeSilent
    /\ req[p].pc \in {"sent", "incrd"}
    /\ LET s2 == AfterPipeline(req[p], FALSE)
       IN  /\ req' = [req EXCEPT ![p] = s2]
           /\ hits' = HitsAfter(s2)
           /\ allowedIn' = AllowedAfter(s2)
    /\ failures' = failures + 1
    /\ UNCHANGED <<gateVars, now, store, file, cachedConfig, configLastModified, envOk, lanes,
                   started, ticks, overlapped, lastIncr, idReq, idRes>>

\* the store executes the GET of the minute counter and redis.get()
\* resolves: applyRateLimit builds the allowed result
StoreGet(p) ==
    /\ ~storeSilent
    /\ req[p].pc = "getSent"
    /\ LET s == req[p]
           s2 == AfterGet([s EXCEPT !.count = StoreGetFrom(store, s.key),
                                    !.ops = @ + 1], TRUE)
       IN  /\ req' = [req EXCEPT ![p] = s2]
           /\ allowedIn' = AllowedAfter(s2)
    /\ UNCHANGED <<gateVars, now, store, file, cachedConfig, configLastModified, envOk, lanes,
                   started, failures, ticks, overlapped, hits, lastIncr,
                   idReq, idRes>>

\* redis.get() rejects: the inner catch block of applyRateLimit
GetFail(p) ==
    /\ ~storeSilent
    /\ failures < FailureCap
    /\ req[p].pc = "getSent"
    /\ LET s2 == AfterGet(req[p], FALSE)
       IN  /\ req' = [req EXCEPT ![p] = s2]
           /\ allowedIn' = AllowedAfter(s2)
    /\ failures' = failures + 1
    /\ UNCHANGED <<gateVars, now, store, file, cachedConfig, configLastModified, envOk, lanes,
                   started, ticks, overlapped, hits, lastIncr, idReq, idRes>>

\* a second passes; keys whose expiry time is reached are gone
Tick ==
    /\ ticks < TickCap
    /\ now' = now + 1
    /\ ticks' = ticks + 1
    /\ store' = Purge(store, now')
    /\ UNCHANGED <<gateVars, file, cachedConfig, configLastModified, envOk, lanes, req,
                   started, failures, overlapped, hits, allowedIn, lastIncr,
                   idReq, idRes>>

Next ==
    \/ \E p \in Slots, r \in LimiterRequests : Start(p, r)
    \/ \E p \in Slots : StoreIncr(p)
    \/ \E p \in Slots : StoreExpire(p)
    \/ \E p \in Slots : PipelineFail(p)
    \/ \E p \in Slots : StoreGet(p)
    \/ \E p \in Slots : GetFail(p)
    \/ Tick

Spec == Init /\ [][Next]_vars

(***************************************************************************)
(* The limiter with a store that may stop answering.  A store that answers *)
(* does so eventually; nothing is assumed of one that has gone silent.     *)
(***************************************************************************)
LiveLimitChoices == {MkLimits(1, 0, 0, 0), MkLimits(0, 1, 0, 0)}

InitLive == InitLimiter(1, LiveLimitChoices)

\* from now on no store call is answered, neither resolved nor rejected
StoreGoesSilent ==
    /\ envOk
    /\ ~storeSilent
    /\ storeSilent' = TRUE
    /\ UNCHANGED <<now, store, file, cachedConfig, configLastModified, envOk,
                   lanes, req, started, failures, ticks, overlapped, hits,
                   allowedIn, lastIncr, idReq, idRes, verificationCache,
                   turnstileEnv, gateCall, lastCached, cfgCall, adminLog,
                   cleanupAt, hook, adminView>>

NextLive == Next \/ StoreGoesSilent

\* an answering store resolves the call it was sent
StoreAnswers ==
    \A p \in Slots :
        /\ WF_vars(StoreIncr(p))
        /\ WF_vars(StoreExpire(p))
        /\ WF_vars(StoreGet(p))

SpecLive == InitLive /\ [][NextLive]_vars /\ StoreAnswers

(***************************************************************************)
(* The limiter behind the schema: the file on disk is whatever an operator *)
(* wrote, and ConfigSchema decides whether it becomes the configuration.   *)
(***************************************************************************)
\* limits as written in the file: a window set to 0, a window left out, a
\* negative limit, and two ordinary ones
WrittenLimits ==
    {MkLimits(0, 1, 0, 0), [hour |-> 1, day |-> 0, month |-> 0],
     MkLimits(-1, 0, 0, 0), MkLimits(1, 0, 0, 1), MkLimits(1, 1, 0, 0)}

DefaultRoute == <<"/", "api", "/", "proxy", "/", "projects">>

\* a file whose state is what ConfigSchema makes of its content
SchemaFile(content, mtime) ==
    MkFile(IF ConfigSchemaAccepts(content) THEN "ok" ELSE "invalid",
           content, mtime)

SchemaFiles ==
    {SchemaFile(MkConfig(<<"session-cookie", "ip">>, Undefined, lim,
                         {ScopedRoute, DefaultRoute}), 1) :
        lim \in WrittenLimits}

SchemaRequests ==
    {SessionRequest(DefaultRoute, "a"), SessionRequest(<<"/", "q">>, "a")}

InitSchema == InitLimiterFiles(1, SchemaFiles)

NextSchema ==
    \/ \E p \in Slots, r \in SchemaRequests : Start(p, r)
    \/ \E p \in Slots : StoreIncr(p)
    \/ \E p \in Slots : StoreExpire(p)
    \/ \E p \in Slots : PipelineFail(p)
    \/ \E p \in Slots : StoreGet(p)
    \/ \E p \in Slots : GetFail(p)
    \/ Tick

SpecSchema == InitSchema /\ [][NextSchema]_vars

SpecConc == InitConc /\ [][Next]_vars

TypeOK ==
    /\ now \in Nat
    /\ started \in 0..RequestCap
    /\ \A p \in Slots : req[p].pc \in
          {"idle", "sent", "incrd", "getSent", "done"}

(***************************************************************************)
(* The limiter with the administrative reset (admin/analytics.ts).         *)
(***************************************************************************)
\* getTimeWindows(): no month
getTimeWindows(t) ==
    [minute |-> t - (t % 60), hour |-> t - (t % 3600),
     day |-> t - (t % 86400)]

\* `rate:${window}:${windowStart}:${identityKey}` as analytics.ts builds it
AdminKey(window, windowStart, identityKey) ==
    <<"rate", ":", window, ":", ToString(windowStart), ":">> \o identityKey

AdminLimitChoices ==
    {MkLimits(1, 0, 0, 0), MkLimits(0, 0, 1, 0), MkLimits(0, 0, 0, 1),
     MkLimits(1, 1, 1, 1)}

AdminIds == {<<"session", ":", "a">>, <<"session", ":", "b">>}

RECURSIVE DelAll(_, _)
DelAll(s, ks) ==
    IF ks = {} THEN s
    ELSE LET k == CHOOSE x \in ks : TRUE
         IN  DelAll(Del(s, k), ks \ {k})

InitAdmin == InitLimiter(1, AdminLimitChoices)

\* resetUserCounters(identityKey), no window given: redis.del(...keys)
ResetUserCounters(identityKey) ==
    LET timeWindows == getTimeWindows(now)
        keys == {AdminKey(x, timeWindows[x], identityKey) :
                    x \in {"minute", "hour", "day"}}
    IN  /\ envOk
        /\ adminLog.resets < MaxResets
        /\ store' = DelAll(store, keys)
        /\ adminLog' = [resets |-> adminLog.resets + 1,
                        id |-> identityKey, at |-> now]
        /\ UNCHANGED <<now, file, cachedConfig, configLastModified, envOk,
                       lanes, req, started, failures, ticks, overlapped,
                       hits, allowedIn, lastIncr, idReq, idRes,
                       verificationCache, turnstileEnv, gateCall,
                       lastCached, cfgCall, cleanupAt, storeSilent, hook, adminView>>

NextAdmin ==
    \/ Next
    \/ \E id \in AdminIds : ResetUserCounters(id)

SpecAdmin == InitAdmin /\ [][NextAdmin]_vars

(***************************************************************************)
(* Identity resolution on its own: every request shape against every       *)
(* state of the configuration file.                                        *)
(***************************************************************************)
IdentityOrders ==
    {<<"jwt-sub", "session-cookie", "ip">>, <<"session-cookie", "jwt-sub">>,
     <<"ip", "jwt-sub">>, <<"jwt-sub">>, <<>>}

IdentityConfigs ==
    {MkConfig(order, secret, MkLimits(10, 100, 1000, 30000), {ScopedRoute}) :
        order \in IdentityOrders, secret \in {Undefined, "s1"}}

IdentityFiles(mtime) ==
    {MkFile("ok", c, mtime) : c \in IdentityConfigs}
        \cup {MkFile(st, DefaultConfig, mtime) :
                st \in {"missing", "malformed", "invalid"}}

Auths ==
    {NoAuth, MkAuth("basic", Null, "", FALSE),
     MkAuth("malformed", Null, "", FALSE),
     MkAuth("jwt", <<"u1">>, "s1", FALSE),     \* valid under secret s1
     MkAuth("jwt", <<"u1">>, "s1", TRUE),      \* expired
     MkAuth("jwt", <<"u2">>, "other", FALSE),  \* signed with another key
     MkAuth("jwt", Null, "s1", FALSE)}         \* no sub claim

Sessions ==
    {NoSession,
     MkSession(FALSE, <<"b">>, FALSE, Null, FALSE),
     MkSession(TRUE, Null, TRUE, <<"a">>, FALSE),
     MkSession(TRUE, Null, TRUE, <<"a">>, TRUE)}   \* bad percent-encoding

Ips ==
    {MkIp(<<"1.1.1.1", "2.2.2.2">>, "", "", "", TRUE),
     MkIp(<<"">>, "2.2.2.2", "", "", FALSE)}       \* digest() throws

IdentityRequests ==
    {MkRequest(<<"/", "p">>, a, se, ip) :
        a \in Auths, se \in Sessions, ip \in Ips}

InitIdentity ==
    /\ now = 5
    /\ store = <<>>
    /\ file \in IdentityFiles(1)
    /\ cachedConfig = NoConfig
    /\ configLastModified = 0
    /\ envOk = TRUE
    /\ lanes = 1
    /\ req = [p \in Slots |-> IdleSlot]
    /\ started = 0
    /\ failures = 0
    /\ ticks = 0
    /\ overlapped = FALSE
    /\ hits = <<>>
    /\ allowedIn = <<>>
    /\ lastIncr = <<>>
    /\ idReq = NoRequest
    /\ idRes = NoIdRes
    /\ InitGateIdle

\* getIdentityKey(request) is called
Resolve(r) ==
    /\ LET lcA == loadConfig(file, cachedConfig, configLastModified)
           \* extractJwtSubject calls loadConfig once more, on the same file
           lcB == loadConfig(file, lcA.cached, lcA.lastMod)
           res == getIdentityKey(r, lcA.config)
       IN  /\ idRes' = [returned |-> TRUE, key |-> res.key,
                        consulted |-> res.consulted, config |-> lcA.config]
           /\ cachedConfig' = lcB.cached
           /\ configLastModified' = lcB.lastMod
    /\ idReq' = r
    /\ UNCHANGED <<gateVars, now, store, file, envOk, lanes, req, started, failures,
                   ticks, overlapped, hits, allowedIn, lastIncr>>

\* the configuration file is rewritten, removed or damaged
WriteConfig(f) ==
    /\ file.mtime <= MaxWrites
    /\ f # file
    /\ file' = f
    /\ UNCHANGED <<gateVars, now, store, cachedConfig, configLastModified, envOk,
                   lanes, req, started, failures, ticks, overlapped, hits,
                   allowedIn, lastIncr, idReq, idRes>>

\* what the file is rewritten to
Rewrites(mtime) ==
    {MkFile("ok", MkConfig(<<"session-cookie", "jwt-sub">>, "s1",
                           MkLimits(10, 100, 1000, 30000), {ScopedRoute}),
            mtime),
     MkFile("ok", MkConfig(<<"jwt-sub">>, Undefined,
                           MkLimits(10, 100, 1000, 30000), {ScopedRoute}),
            mtime),
     MkFile("malformed", DefaultConfig, mtime),
     MkFile("missing", DefaultConfig, mtime)}

NextIdentity ==
    \/ \E r \in IdentityRequests : Resolve(r)
    \/ \E f \in Rewrites(file.mtime + 1) : WriteConfig(f)

SpecIdentity == InitIdentity /\ [][NextIdentity]_vars

(***************************************************************************)
(* The verification gate on its own: one serving instance with its         *)
(* in-process map, the shared store, and other instances that write to     *)
(* the store only.                                                         *)
(***************************************************************************)
GateIds ==
    {<<"ip", ":", "h16(1.1.1.1)">>, <<"session", ":", "a">>,
     <<"jwt", ":", "u1">>, <<"anonymous">>}

\* the identities whose verification is recorded and cleared
RecordedIds == {<<"ip", ":", "h16(1.1.1.1)">>}

TurnstileEnvs ==
    {MkTurnstileEnv(e, b, r, d) :
        e \in {"true", "false"}, b \in {Undefined, "false"},
        r \in {Undefined, "false"}, d \in {0, 1, 2}}

\* what the gate leaves alone
gateFrame ==
    <<file, cachedConfig, configLastModified, envOk, lanes, req, started,
      failures, overlapped, hits, allowedIn, lastIncr, idReq, idRes,
      turnstileEnv, cfgCall, adminLog, cleanupAt, storeSilent, hook, adminView>>

\* the gate before any call; phases: the seconds until the cleanup timer
\* fires first
InitGateFrom(envs, phases) ==
    /\ now = 5
    /\ store = <<>>
    /\ file = MkFile("missing", DefaultConfig, 1)
    /\ cachedConfig = NoConfig
    /\ configLastModified = 0
    /\ envOk \in BOOLEAN
    /\ lanes = 1
    /\ req = [p \in Slots |-> IdleSlot]
    /\ started = 0
    /\ failures = 0
    /\ ticks = 0
    /\ overlapped = FALSE
    /\ hits = <<>>
    /\ allowedIn = <<>>
    /\ lastIncr = <<>>
    /\ idReq = NoRequest
    /\ idRes = NoIdRes
    /\ verificationCache = <<>>
    /\ turnstileEnv \in envs
    /\ gateCall = NoGateCall
    /\ lastCached = <<>>
    /\ cfgCall = NoCfgCall
    /\ adminLog = NoReset
    /\ cleanupAt \in {now + ph : ph \in phases}
    /\ storeSilent = FALSE
    /\ hook = NoHook
    /\ adminView = NoView

InitGate == InitGateFrom(TurnstileEnvs, {1})

\* cacheVerification(identityKey, token); fails: redis.set rejects
CacheVerification(id, fails) ==
    LET config == getTurnstileConfig(turnstileEnv)
        cacheKey == getCacheKey(id)
    IN  /\ fails => envOk
        /\ store' = IF envOk /\ ~fails
                    THEN Put(store, cacheKey,
                             [count |-> 1,
                              expireAt |-> now + ttlSeconds(config)])
                    ELSE store
        /\ verificationCache' =
              Put(verificationCache, cacheKey,
                  [token |-> "tok", verifiedAt |-> DateNow(now)])
        /\ lastCached' = Put(lastCached, id, [at |-> now, here |-> TRUE])
        /\ gateCall' = [NoGateCall EXCEPT !.op = "cacheVerification",
                                          !.id = id, !.at = now]
        /\ UNCHANGED <<gateFrame, now, ticks>>

\* isIdentityVerified(identityKey); fails: redis.exists rejects
IsIdentityVerified(id, fails) ==
    LET config == getTurnstileConfig(turnstileEnv)
        exists == RedisExists(store, getCacheKey(id), envOk, fails)
        hv == hasValidCachedVerification(id, config, exists,
                                         verificationCache, now)
    IN  /\ fails => envOk
        /\ verificationCache' = hv.cache
        /\ gateCall' =
              [op |-> "isIdentityVerified", id |-> id, at |-> now,
               exists |-> exists,
               memBefore |-> MemValid(verificationCache, getCacheKey(id),
                                      config, now),
               last |-> LastRecorded(lastCached, id),
               answer |-> hv.answer, result |-> NoGateResult]
        /\ UNCHANGED <<gateFrame, now, ticks, store, lastCached>>

\* applyTurnstileVerification(request, identityKey)
ApplyTurnstile(id, fails) ==
    LET config == getTurnstileConfig(turnstileEnv)
        asked == config.enabled /\ isTurnstileRequired(id, config)
        exists == RedisExists(store, getCacheKey(id), envOk, fails)
        r == applyTurnstileVerification(id, config, exists,
                                        verificationCache, now)
    IN  /\ fails => (envOk /\ asked)
        /\ verificationCache' = r.cache
        /\ gateCall' =
              [op |-> "applyTurnstileVerification", id |-> id, at |-> now,
               exists |-> IF asked THEN exists ELSE "notasked",
               memBefore |-> MemValid(verificationCache, getCacheKey(id),
                                      config, now),
               last |-> LastRecorded(lastCached, id),
               answer |-> r.result.verified, result |-> r.result]
        /\ UNCHANGED <<gateFrame, now, ticks, store, lastCached>>

\* clearVerificationCache(identityKey); fails: redis.del rejects
ClearVerificationCache(id, fails) ==
    LET cacheKey == getCacheKey(id)
    IN  /\ fails => envOk
        /\ cacheKey \in DOMAIN store \cup DOMAIN verificationCache
        /\ store' = IF envOk /\ ~fails THEN Del(store, cacheKey) ELSE store
        /\ verificationCache' = Del(verificationCache, cacheKey)
        /\ lastCached' = Del(lastCached, id)
        /\ gateCall' = [NoGateCall EXCEPT !.op = "clearVerificationCache",
                                          !.id = id, !.at = now]
        /\ UNCHANGED <<gateFrame, now, ticks>>

\* cacheVerification on another instance: only the store is shared
CacheElsewhere(id) ==
    /\ envOk
    /\ store' = Put(store, getCacheKey(id),
                    [count |-> 1,
                     expireAt |-> now
                        + ttlSeconds(getTurnstileConfig(turnstileEnv))])
    /\ lastCached' = Put(lastCached, id, [at |-> now, here |-> FALSE])
    /\ UNCHANGED <<gateFrame, now, ticks, verificationCache, gateCall>>

\* clearVerificationCache on another instance
ClearElsewhere(id) ==
    /\ envOk
    /\ getCacheKey(id) \in DOMAIN store
    /\ store' = Del(store, getCacheKey(id))
    /\ lastCached' = Del(lastCached, id)
    /\ UNCHANGED <<gateFrame, now, ticks, verificationCache, gateCall>>

\* a second passes, the cleanup timer not being due; store records whose
\* time has come expire
GateTick ==
    /\ ticks < MaxGateTicks
    /\ now < cleanupAt
    /\ now' = now + 1
    /\ ticks' = ticks + 1
    /\ store' = Purge(store, now + 1)
    /\ UNCHANGED <<gateFrame, verificationCache, gateCall, lastCached>>

\* no call is made for five minutes, or until the cleanup timer is due
GateIdle ==
    /\ now \div (fiveMinutes \div 1000) < MaxGateIdles
    /\ now < cleanupAt
    /\ now' = IF cleanupAt <= now + fiveMinutes \div 1000
              THEN cleanupAt ELSE now + fiveMinutes \div 1000
    /\ store' = Purge(store, now')
    /\ UNCHANGED <<gateFrame, ticks, verificationCache, gateCall, lastCached>>

\* the cleanup timer fires: setInterval(..., 5 * 60 * 1000)
Cleanup ==
    /\ now = cleanupAt
    /\ verificationCache' = CleanupExpired(verificationCache, now)
    /\ cleanupAt' = cleanupAt + fiveMinutes \div 1000
    /\ UNCHANGED <<file, cachedConfig, configLastModified, envOk, lanes, req,
                   started, failures, overlapped, hits, allowedIn, lastIncr,
                   idReq, idRes, turnstileEnv, cfgCall, adminLog, now, ticks,
                   store, gateCall, lastCached, storeSilent, hook, adminView>>

NextGate ==
    \/ \E id \in RecordedIds : \E fails \in BOOLEAN :
            CacheVerification(id, fails)
    \/ \E id \in RecordedIds : \E fails \in BOOLEAN :
            IsIdentityVerified(id, fails)
    \/ \E id \in GateIds : \E fails \in BOOLEAN : ApplyTurnstile(id, fails)
    \/ \E id \in RecordedIds : \E fails \in BOOLEAN :
            ClearVerificationCache(id, fails)
    \/ \E id \in RecordedIds : CacheElsewhere(id)
    \/ \E id \in RecordedIds : ClearElsewhere(id)
    \/ GateTick
    \/ Cleanup

SpecGate == InitGate /\ [][NextGate]_vars

(***************************************************************************)
(* The gate over minutes: one instance with the challenge switched on, the *)
(* default cache duration of five minutes or one of ten, pauses of five    *)
(* minutes, and the cleanup timer at either phase.                         *)
(***************************************************************************)
LongTurnstileEnvs ==
    {MkTurnstileEnv("true", Undefined, Undefined, d) : d \in {300, 600}}

InitGateLong == InitGateFrom(LongTurnstileEnvs, {1, fiveMinutes \div 1000})

NextGateLong ==
    \/ \E id \in RecordedIds : \E fails \in BOOLEAN :
            CacheVerification(id, fails)
    \/ \E id \in RecordedIds : \E fails \in BOOLEAN :
            IsIdentityVerified(id, fails)
    \/ \E id \in RecordedIds : \E fails \in BOOLEAN :
            ApplyTurnstile(id, fails)
    \/ \E id \in RecordedIds : \E fails \in BOOLEAN :
            ClearVerificationCache(id, fails)
    \/ GateTick
    \/ GateIdle
    \/ Cleanup

SpecGateLong == InitGateLong /\ [][NextGateLong]_vars

(***************************************************************************)
(* The configuration provider on its own: getIdentityConfig() against a    *)
(* file that is rewritten, damaged or removed.                             *)
(***************************************************************************)
ProviderConfigs ==
    {MkConfig(<<"jwt-sub", "session-cookie", "ip">>, Undefined, lim,
              {ScopedRoute}) :
        lim \in {MkLimits(1, 2, 3, 4), MkLimits(5, 6, 7, 8),
                 MkLimits(10, 100, 1000, 30000)}}

ProviderFiles(mtime) ==
    {MkFile("ok", c, mtime) : c \in ProviderConfigs}
        \cup {MkFile(st, DefaultConfig, mtime) : st \in FileStates \ {"ok"}}

InitConfig ==
    /\ now = 5
    /\ store = <<>>
    /\ file \in ProviderFiles(1)
    /\ cachedConfig = NoConfig
    /\ configLastModified = 0
    /\ envOk = TRUE
    /\ lanes = 1
    /\ req = [p \in Slots |-> IdleSlot]
    /\ started = 0
    /\ failures = 0
    /\ ticks = 0
    /\ overlapped = FALSE
    /\ hits = <<>>
    /\ allowedIn = <<>>
    /\ lastIncr = <<>>
    /\ idReq = NoRequest
    /\ idRes = NoIdRes
    /\ InitGateIdle

\* getIdentityConfig(): one call of loadConfig()
GetIdentityConfig ==
    LET lc == loadConfig(file, cachedConfig, configLastModified)
    IN  /\ cachedConfig' = lc.cached
        /\ configLastModified' = lc.lastMod
        /\ cfgCall' =
              [calls |-> IF cfgCall.calls < 2 THEN cfgCall.calls + 1 ELSE 2,
               config |-> lc.config,
               read |-> loadConfigReads(file, cachedConfig,
                                        configLastModified),
               file |-> file,
               cachedBefore |-> cachedConfig,
               prevConfig |-> cfgCall.config,
               prevFile |-> cfgCall.file]
        /\ UNCHANGED <<now, store, file, envOk, lanes, req, started,
                       failures, ticks, overlapped, hits, allowedIn,
                       lastIncr, idReq, idRes, verificationCache,
                       turnstileEnv, gateCall, lastCached, adminLog, cleanupAt,
                       storeSilent, hook, adminView>>

NextConfig ==
    \/ GetIdentityConfig
    \/ \E f \in ProviderFiles(file.mtime + 1) : WriteConfig(f)

SpecConfig == InitConfig /\ [][NextConfig]_vars

(***************************************************************************)
(* The token hook in one mounted component.  The callbacks the component   *)
(* holds are those of its latest render and read the tokenState captured   *)
(* then (useCallback with tokenState among its dependencies); a state      *)
(* update reaches them with the next render.                               *)
(***************************************************************************)
HookTokens == {"T1", "T2"}

hookFrame ==
    <<store, file, cachedConfig, configLastModified, envOk, lanes, req,
      started, failures, overlapped, hits, allowedIn, lastIncr, idReq, idRes,
      verificationCache, turnstileEnv, gateCall, lastCached, cfgCall,
      adminLog, cleanupAt, storeSilent, adminView>>

InitHook ==
    /\ now = 5
    /\ store = <<>>
    /\ file = MkFile("missing", DefaultConfig, 1)
    /\ cachedConfig = NoConfig
    /\ configLastModified = 0
    /\ envOk = TRUE
    /\ lanes = 1
    /\ req = [p \in Slots |-> IdleSlot]
    /\ started = 0
    /\ failures = 0
    /\ ticks = 0
    /\ overlapped = FALSE
    /\ hits = <<>>
    /\ allowedIn = <<>>
    /\ lastIncr = <<>>
    /\ idReq = NoRequest
    /\ idRes = NoIdRes
    /\ InitGateIdle

\* setToken(token)
SetToken(token) ==
    /\ hook' = [hook EXCEPT !.tokenState = setToken(token, now),
                            !.setAt = now, !.current = token]
    /\ UNCHANGED <<hookFrame, now, ticks>>

\* clearToken(), called by the component
ClearToken ==
    /\ hook.tokenState # EmptyTokenState
    /\ hook' = [hook EXCEPT !.tokenState = EmptyTokenState,
                            !.setAt = -1, !.current = NoToken]
    /\ UNCHANGED <<hookFrame, now, ticks>>

\* React renders the component again: new callbacks over the new state
Render ==
    /\ hook.rendered # hook.tokenState
    /\ hook' = [hook EXCEPT !.rendered = hook.tokenState]
    /\ UNCHANGED <<hookFrame, now, ticks>>

\* fetchWithTurnstile(url, options) up to the await of fetch
FetchWithTurnstile ==
    /\ ~hook.pending
    /\ hook.fetches < MaxFetches
    /\ LET v == getValidToken(hook.rendered, now)
       IN  hook' =
             [hook EXCEPT
                !.tokenState = IF v.clears THEN EmptyTokenState ELSE @,
                !.setAt = IF v.clears THEN -1 ELSE @,
                !.current = IF v.clears THEN NoToken ELSE @,
                !.pending = TRUE,
                !.fetches = @ + 1,
                !.last = [sent |-> TRUE,
                          headers |-> getTurnstileHeaders(hook.rendered, now),
                          at |-> now, setAt |-> hook.setAt,
                          current |-> hook.current]]
    /\ UNCHANGED <<hookFrame, now, ticks>>

\* the response arrives; marked: status 403 with turnstileRequired or
\* code TURNSTILE_VERIFICATION_REQUIRED in its body
Respond(marked) ==
    /\ hook.pending
    /\ hook' = IF marked
               THEN [hook EXCEPT !.pending = FALSE,
                                 !.tokenState = EmptyTokenState,
                                 !.setAt = -1, !.current = NoToken]
               ELSE [hook EXCEPT !.pending = FALSE]
    /\ UNCHANGED <<hookFrame, now, ticks>>

HookTick ==
    /\ ticks < MaxHookTicks
    /\ now' = now + 1
    /\ ticks' = ticks + 1
    /\ UNCHANGED <<hookFrame, hook>>

\* five minutes pass
HookIdle ==
    /\ now \div (tokenLifetime \div 1000) < MaxHookIdles
    /\ now' = now + tokenLifetime \div 1000
    /\ UNCHANGED <<hookFrame, hook, ticks>>

NextHook ==
    \/ \E token \in HookTokens : SetToken(token)
    \/ ClearToken
    \/ Render
    \/ FetchWithTurnstile
    \/ \E marked \in BOOLEAN : Respond(marked)
    \/ HookTick
    \/ HookIdle

SpecHook == InitHook /\ [][NextHook]_vars

(***************************************************************************)
(* The limiter with the administrative user lookup (admin/analytics.ts:    *)
(* getAllUsers, getUserDetails).  Strings are sequences of tokens, so a    *)
(* run of tokens found inside another is a substring of it.                *)
(***************************************************************************)
\* String.prototype.toLowerCase over the alphabet of the identities
toLowerCase(s) == [i \in 1..Len(s) |-> IF s[i] = "A" THEN "a" ELSE s[i]]

\* String.prototype.includes
includes(s, searchString) ==
    \E i \in 0..(Len(s) - Len(searchString)) :
        SubSeq(s, i + 1, i + Len(searchString)) = searchString

\* redis.keys('rate:*') and `parts.length >= 4` of key.split(':')
rateKeys(s) == {key \in DOMAIN s : Len(key) >= 7 /\ Head(key) = "rate"}

\* parts.slice(3).join(':')
partsIdentityKey(key) == SubSeq(key, 7, Len(key))

\* the keys of identityMap
identityMap(s) == {partsIdentityKey(key) : key \in rateKeys(s)}

\* the counts identityMap may hold as `minute` of an identity: that of the
\* minute key read last, whatever order the store lists its keys in
minuteCounts(s, identityKey) ==
    LET ks == {key \in rateKeys(s) :
                 partsIdentityKey(key) = identityKey /\ key[3] = "minute"}
    IN  IF ks = {} THEN {0} ELSE {s[key].count : key \in ks}

getIdentityType(identityKey) ==
    IF IsPrefix(<<"jwt", ":">>, identityKey) THEN "jwt"
    ELSE IF IsPrefix(<<"session", ":">>, identityKey) THEN "session"
    ELSE "ip"

\* getAllUsers({ identityKey }): the users left by the identityKey filter
getAllUsers(s, identityKey) ==
    IF identityKey = <<>> THEN identityMap(s)
    ELSE {user \in identityMap(s) :
            includes(toLowerCase(user), toLowerCase(identityKey))}

UsersLimitChoices == {MkLimits(1, 0, 0, 0), MkLimits(0, 0, 1, 0)}

UsersSessions == {<<"a">>, <<"a", "b">>, <<"A">>}

UsersRequests ==
    {MkRequest(ScopedRoute, NoAuth, MkSession(TRUE, Null, TRUE, id, FALSE),
               NoIp) : id \in UsersSessions}

UsersKeys == {<<"session", ":">> \o id : id \in UsersSessions}

InitUsers == InitLimiter(1, UsersLimitChoices)

\* getUserDetails(identityKey): getAllUsers({ identityKey, limit: 1 }) and
\* result.users[0] || null; users keep the order the store lists keys in
GetUserDetails(identityKey) ==
    /\ envOk
    /\ adminView.calls < MaxViews
    /\ LET users == getAllUsers(store, identityKey)
           view == [calls |-> adminView.calls + 1, key |-> identityKey,
                    hadCounter |-> identityKey \in identityMap(store),
                    found |-> FALSE, identityKey |-> Null,
                    identityType |-> Null, minute |-> 0]
       IN  IF users = {} THEN adminView' = view
           ELSE \E user \in users : \E count \in minuteCounts(store, user) :
                    adminView' =
                        [view EXCEPT !.found = TRUE, !.identityKey = user,
                                     !.identityType = getIdentityType(user),
                                     !.minute = count]
    /\ UNCHANGED <<now, store, file, cachedConfig, configLastModified, envOk,
                   lanes, req, started, failures, ticks, overlapped, hits,
                   allowedIn, lastIncr, idReq, idRes, verificationCache,
                   turnstileEnv, gateCall, lastCached, cfgCall, adminLog,
                   cleanupAt, storeSilent, hook>>

NextUsers ==
    \/ \E p \in Slots, r \in UsersRequests : Start(p, r)
    \/ \E p \in Slots : StoreIncr(p)
    \/ \E p \in Slots : StoreExpire(p)
    \/ \E p \in Slots : StoreGet(p)
    \/ Tick
    \/ \E identityKey \in UsersKeys : GetUserDetails(identityKey)

SpecUsers == InitUsers /\ [][NextUsers]_vars

(***************************************************************************)
(* Properties of the limiter.                                              *)
(***************************************************************************)
\* parts.slice(3).join(':') of a counter key: the identity it belongs to
KeyIdentity(k) == SubSeq(k, 7, Len(k))

Enforced(limits) == {x \in WindowSet : limits[x] # 0}

DoneInScope(s) == s.pc = "done" /\ s.inScope

\* C1: with a healthy store and sequential requests of one identity inside
\* one window of limit N, request k <= N is allowed with remaining N - k and
\* request N + 1 is denied with remaining 0 and a positive Retry-After.
C1_SequentialQuota ==
    \A p \in Slots : \A x \in WindowSet :
        LET s == req[p]
            N == s.limits[x]
            k == s.win[x].k
        IN  (/\ DoneInScope(s)
             /\ envOk /\ failures = 0 /\ ~overlapped
             /\ Enforced(s.limits) = {x}
             /\ getWindowStart(x, s.timestamp) = s.win[x].ws)
            => /\ (k <= N =>
                     /\ s.result.allowed
                     /\ s.result.remaining = N - k)
               /\ (k = N + 1 =>
                     /\ ~s.result.allowed
                     /\ s.result.remaining = 0
                     /\ "Retry-After" \in DOMAIN s.result.headers
                     /\ s.result.resetTime - s.win[x].ts > 0
                     /\ s.result.headers["Retry-After"] =
                            ToString(s.result.resetTime - s.win[x].ts))

\* C2: with a healthy store, among the calls of one identity that fall in
\* the same window, under every interleaving, at most limit calls are allowed.
C2_AtMostLimitAllowed ==
    (envOk /\ failures = 0) =>
        \A hk \in DOMAIN allowedIn :
            allowedIn[hk] <= file.content.limits[hk[2]]

\* C4: a result of an in-scope request during which a store operation failed
\* carries the X-RateLimit-Error header.
C4_DegradationMarked ==
    \A p \in Slots :
        (DoneInScope(req[p]) /\ req[p].failed # {})
            => "X-RateLimit-Error" \in DOMAIN req[p].result.headers

C6_Isolation ==
    [][now' = now =>
        \A k \in DOMAIN store \cup DOMAIN store' :
            (k \notin DOMAIN store \/ k \notin DOMAIN store'
                \/ store[k] # store'[k])
            => \E p \in Slots :
                /\ req'[p] # req[p]
                /\ KeyIdentity(k) = req[p].identityKey]_vars

\* two identities hold counters in the same window, one of them a request
\* that was allowed with count 1 while the other's counter is at its limit
C6_Witness ==
    \E p \in Slots : \E k \in DOMAIN store : \E x \in WindowSet :
        /\ DoneInScope(req[p])
        /\ req[p].win[x].count = 1
        /\ req[p].result.allowed
        /\ KeyIdentity(k) # req[p].identityKey
        /\ k = generateRedisKey(KeyIdentity(k), x, req[p].win[x].ws)
        /\ store[k].count >= req[p].limits[x]

\* C7: with a healthy store and sequential requests, an increment whose
\* timestamp lies a window's duration or more after the window start of the
\* identity's previous increment returns 1.
C7_FreshCounterAfterWindow ==
    \A p \in Slots : \A x \in WindowSet :
        LET wn == req[p].win[x]
        IN  (/\ failures = 0 /\ ~overlapped
             /\ wn.count >= 1 /\ wn.prev >= 0
             /\ wn.ts >= getResetTime(x, getWindowStart(x, wn.prev)))
            => wn.count = 1

C17_HeadersComplete ==
    \A p \in Slots :
        DoneInScope(req[p]) =>
            /\ {"X-RateLimit-Limit", "X-RateLimit-Remaining",
                "X-RateLimit-Reset", "X-RateLimit-Window"}
                  \subseteq DOMAIN req[p].result.headers
            /\ "Retry-After" \in DOMAIN req[p].result.headers
                  <=> ~req[p].result.allowed

\* C18: a reset of all windows of an identity leaves no counter of the
\* identity in the current minute, hour, day or month window, and changes
\* no counter of another identity.
C18_ResetClearsAllWindows ==
    [][adminLog' # adminLog =>
        /\ \A x \in WindowSet :
              generateRedisKey(adminLog'.id, x, getWindowStart(x, now))
                  \notin DOMAIN store'
        /\ \A k \in DOMAIN store :
              KeyIdentity(k) # adminLog'.id
                  => (k \in DOMAIN store' /\ store'[k] = store[k])]_vars

\* the request in slot s has sent its pipeline for window x
Touched(s, x) == s.win[x].ws >= 0

\* the windows that come before x, and after x, in the order of the loop
Before(x) == {Windows[i] : i \in {j \in 1..Len(Windows) :
                 \E k \in (j + 1)..Len(Windows) : Windows[k] = x}}
After(x) == {y \in WindowSet : x \in Before(y)}

\* C23: the enforced windows are visited in the order minute, hour, day,
\* month; the loop stops at the first window whose incremented count
\* exceeds its limit, the denial reports that window, and the request has
\* sent nothing to the counters of the windows after it.
C23_FirstExceededWindowDenies ==
    \A p \in Slots :
        LET s == req[p]
        IN  /\ \A x \in WindowSet :
                  Touched(s, x) =>
                      /\ s.limits[x] # 0
                      /\ \A y \in Before(x) \cap Enforced(s.limits) :
                            /\ Touched(s, y)
                            /\ y \in s.failed \/ s.win[y].count <= s.limits[y]
            /\ (DoneInScope(s) /\ ~s.result.allowed) =>
                  /\ s.result.window \in Enforced(s.limits)
                  /\ Touched(s, s.result.window)
                  /\ s.win[s.result.window].count
                        > s.limits[s.result.window]
                  /\ s.result.limit = s.limits[s.result.window]
                  /\ \A y \in After(s.result.window) : s.win[y] = NoWin
            /\ (DoneInScope(s) /\ s.result.allowed /\ envOk) =>
                  \A x \in Enforced(s.limits) :
                      /\ Touched(s, x)
                      /\ x \in s.failed \/ s.win[x].count <= s.limits[x]

\* a request that passes minute and hour is denied by the day window while
\* a month limit is configured
C23_Witness ==
    \E p \in Slots :
        /\ DoneInScope(req[p])
        /\ ~req[p].result.allowed
        /\ req[p].result.window = "day"
        /\ Touched(req[p], "minute") /\ Touched(req[p], "hour")
        /\ req[p].limits.month # 0
        /\ req[p].win["month"] = NoWin

\* the first window of the loop that has a limit
Tightest(limits) ==
    CHOOSE x \in Enforced(limits) : Before(x) \cap Enforced(limits) = {}

\* C24: when every enforced window passes with the store healthy, the
\* allowed result reports the limit, remaining count and window of the
\* first window in minute, hour, day, month order that has a limit, also
\* when the minute window has none.
C24_AllowedReportsTightest ==
    \A p \in Slots :
        LET s == req[p]
        IN  (/\ DoneInScope(s) /\ s.result.allowed /\ envOk
             /\ s.failed = {} /\ Enforced(s.limits) # {}) =>
                LET x == Tightest(s.limits)
                IN  /\ s.result.window = x
                    /\ s.result.limit = s.limits[x]
                    /\ s.result.remaining <= s.limits[x]
                    /\ s.result.headers["X-RateLimit-Window"] = x
                    /\ s.result.headers["X-RateLimit-Limit"]
                          = ToString(s.limits[x])

\* C25: for every window a request enters at time ts, the window start is
\* at or before ts and the reset time, window start plus window duration,
\* is after ts, so that the TTL and the Retry-After (reset time minus ts)
\* are strictly positive.
C25_NowInsideWindow ==
    \A p \in Slots : \A x \in WindowSet :
        LET s == req[p]
            windowStart == getWindowStart(x, s.win[x].ts)
            resetTime == getResetTime(x, windowStart)
        IN  Touched(s, x) =>
                /\ s.win[x].ws = windowStart
                /\ resetTime = windowStart + ttlMap[x]
                /\ windowStart <= s.win[x].ts
                /\ s.win[x].ts < resetTime
                /\ resetTime - s.win[x].ts > 0

\* the window a counter key belongs to
KeyWindow(k) == k[3]

\* the limits a request starting now would be given
ActiveLimits == loadConfig(file, cachedConfig, configLastModified).config.limits

\* no request has sent anything to a window in ws, no counter key of such
\* a window exists, and every denial carries the limit of its own window
NotEnforced(s, ws) ==
    /\ \A x \in ws : s.win[x] = NoWin
    /\ \A k \in DOMAIN store : KeyWindow(k) \notin ws
    /\ (DoneInScope(s) /\ ~s.result.allowed) =>
          /\ s.result.window \notin ws
          /\ s.result.limit = s.limits[s.result.window]
          /\ s.win[s.result.window].count > s.result.limit

C27_LimitsNonNegative ==
    /\ cachedConfig.loaded =>
          \A x \in WindowSet : cachedConfig.config.limits[x] \in Nat
    /\ \A p \in Slots :
          (req[p].pc # "idle" /\ req[p].inScope) =>
              /\ \A x \in WindowSet : req[p].limits[x] \in Nat
              /\ (\E x \in DOMAIN file.content.limits :
                        file.content.limits[x] < 0)
                    => req[p].limits # file.content.limits

\* C28: a rate counter key that exists has a TTL, in every reachable state
\* of the store; the only keys allowed to be without one here are those of
\* a pipeline that has executed its INCR and is still to execute its
\* EXPIRE, so that what is left to violate is a key that stays without TTL
\* after the request that created it is over.
C28_CounterHasTtl ==
    \A k \in DOMAIN store :
        \/ store[k].expireAt # NoTTL
        \/ \E p \in Slots : req[p].pc = "incrd" /\ req[p].key = k

\* C29: each completed increment leaves the key with a TTL equal to the
\* full duration of its window (60, 3600, 86400 or 2592000 s), counted from
\* the moment the EXPIRE is executed.
C29_TtlIsWindowDuration ==
    [][\A p \in Slots :
          (req[p].pc = "incrd" /\ req'[p].pc # "incrd"
              /\ failures' = failures) =>
                /\ req[p].key \in DOMAIN store'
                /\ store'[req[p].key].expireAt
                      = now + ttlMap[Windows[req[p].w]]]_vars

\* the window of counter key k is still the current one at time t
KeyCurrent(k, t) == ToString(getWindowStart(KeyWindow(k), t)) = k[5]

\* the TTL of counter key k has not run out at time t
KeyAlive(k, t) == store[k].expireAt = NoTTL \/ store[k].expireAt > t

\* C30: without an administrative reset, a counter whose window is still
\* current and whose TTL has not run out never goes down and is never
\* deleted by the limiter, and every request that reaches the window
\* raises it by exactly 1.
C30_CounterNeverDecreases ==
    [][/\ \A k \in DOMAIN store :
             (KeyCurrent(k, now') /\ KeyAlive(k, now')) =>
                 /\ k \in DOMAIN store'
                 /\ store'[k].count >= store[k].count
                 /\ store'[k].count <= store[k].count + 1
       /\ \A p \in Slots :
             (req[p].pc = "sent" /\ req'[p].pc = "incrd") =>
                 store'[req[p].key].count
                     = StoreGetFrom(store, req[p].key) + 1]_vars

\* C32: every applyRateLimit call that is waiting for the store returns a
\* result in the end, also when the store never answers.
C32_CallsReturn ==
    \A p \in Slots : InFlight(req[p]) ~> ~InFlight(req[p])

\* C33: with the store healthy, the remaining count an allowed request
\* reports is at most the minute limit minus the count its own increment
\* of the minute counter returned.
C33_RemainingWithinOwnCount ==
    \A p \in Slots :
        LET s == req[p]
        IN  (/\ DoneInScope(s) /\ s.result.allowed /\ envOk
             /\ s.failed = {} /\ s.limits.minute # 0) =>
                s.result.remaining <= s.limits.minute - s.win["minute"].count

(***************************************************************************)
(* Properties of identity resolution.                                      *)
(***************************************************************************)
\* the positions of the order whose strategy yields a value for the request
Yielding(order, request, config) ==
    {i \in 1..Len(order) : TryMethod(order[i], request, config) # Null}

Least(S) == CHOOSE i \in S : \A j \in S : i <= j

\* C3: with a secret configured, a bearer token that fails verification
\* (signature or expiry) never yields a jwt identity.
C3_UnverifiedTokenRejected ==
    (/\ idRes.returned
     /\ Truthy(idRes.config.jwtSecret)
     /\ idReq.auth.kind \in {"jwt", "malformed"}
     /\ ~jwtVerifyOk(idReq.auth, idRes.config.jwtSecret))
    => Head(idRes.key) # "jwt"

\* C9: the key returned is that of the first strategy of identityOrder that
\* yields a value, the strategies after it are not consulted, and the ones
\* before it, which yield nothing, all are.
C9_FirstStrategyWins ==
    idRes.returned =>
        LET order == idRes.config.identityOrder
            Y == Yielding(order, idReq, idRes.config)
        IN  IF Y = {}
            THEN idRes.consulted = order
            ELSE /\ idRes.key = TryMethod(order[Least(Y)], idReq, idRes.config)
                 /\ idRes.consulted = SubSeq(order, 1, Least(Y))

\* the first strategy yields nothing, the second one wins, the third is not
\* consulted
C9_Witness ==
    /\ idRes.returned
    /\ Len(idRes.config.identityOrder) = 3
    /\ idRes.consulted = <<"jwt-sub", "session-cookie">>
    /\ Head(idRes.key) = "session"
    /\ idReq.auth.kind = "malformed"

\* C10: getIdentityKey returns a non-empty key, and it returns the anonymous
\* identity exactly when no strategy of the order in force yields a value.
C10_AnonymousIffNoStrategy ==
    idRes.returned =>
        /\ Len(idRes.key) > 0
        /\ idRes.key = <<"anonymous">> <=>
              Yielding(idRes.config.identityOrder, idReq, idRes.config) = {}

\* every listed strategy was tried and failed, one of them on a token that
\* does not parse
C10_Witness ==
    /\ idRes.returned
    /\ idRes.key = <<"anonymous">>
    /\ Len(idRes.consulted) = 2
    /\ idReq.auth.kind = "malformed"
    /\ idReq.sess.hdrBad

\* the positions of ip in the order
IpAt(order) == {i \in 1..Len(order) : order[i] = "ip"}

\* C36: the ip strategy always yields a key, ip:<hash> or ip:unknown when
\* hashing fails, so no strategy listed after the first ip is consulted,
\* and the anonymous identity is returned only when ip is not in the order
\* and every listed strategy yields nothing.
C36_IpAlwaysYields ==
    idRes.returned =>
        LET order == idRes.config.identityOrder
        IN  /\ IpAt(order) # {} =>
                  /\ Len(idRes.consulted) <= Least(IpAt(order))
                  /\ idRes.key # <<"anonymous">>
                  /\ Len(idRes.consulted) = Least(IpAt(order)) =>
                        /\ idRes.key = <<"ip", ":">> \o extractHashedIp(idReq.ip)
                        /\ idRes.key[3] = "unknown" <=> ~idReq.ip.hashOk
            /\ idRes.key = <<"anonymous">> =>
                  /\ IpAt(order) = {}
                  /\ Yielding(order, idReq, idRes.config) = {}

\* ip comes first and hashing fails while a valid token is presented: the
\* key is ip:unknown and the token strategy is not consulted
C36_Witness ==
    /\ idRes.returned
    /\ idRes.config.identityOrder = <<"ip", "jwt-sub">>
    /\ ~idReq.ip.hashOk
    /\ extractJwtSubject(idReq.auth, idRes.config) # Null
    /\ idRes.key = <<"ip", ":", "unknown">>
    /\ idRes.consulted = <<"ip">>

(***************************************************************************)
(* Properties of the verification gate.                                    *)
(***************************************************************************)
GateChecked == gateCall.op \in {"isIdentityVerified", "applyTurnstileVerification"}

GateApplied == gateCall.op = "applyTurnstileVerification"

Authenticated(id) ==
    IsPrefix(<<"jwt", ":">>, id) \/ IsPrefix(<<"session", ":">>, id)

C12_StoreAuthoritative ==
    (GateChecked /\ gateCall.exists = "0") => ~gateCall.answer

\* C13: when the store read of a gate check fails, the gate returns a result
\* and requires a challenge exactly when the in-process map held no record of
\* the identity younger than cacheDuration.
C13_FailClosed ==
    (GateChecked /\ gateCall.exists = "error") =>
        /\ gateCall.answer <=> gateCall.memBefore
        /\ GateApplied =>
              /\ gateCall.result.required
              /\ gateCall.result.verified <=> gateCall.memBefore
              /\ ~gateCall.result.verified
                    => gateCall.result.error # Undefined

\* the store read failed while the store held the record and the map did
\* not: a challenge is required
C13_Witness ==
    /\ GateApplied
    /\ gateCall.exists = "error"
    /\ getCacheKey(gateCall.id) \in DOMAIN store
    /\ ~gateCall.memBefore
    /\ ~gateCall.result.verified

\* C14: with the gate enabled and bypassAuthenticated set, a session or jwt
\* identity is never challenged, and the verification cache is not consulted.
C14_BypassNeverChallenges ==
    LET config == getTurnstileConfig(turnstileEnv)
    IN  (/\ GateApplied
         /\ config.enabled /\ config.bypassAuthenticated
         /\ Authenticated(gateCall.id))
        => /\ gateCall.result.verified
           /\ ~gateCall.result.required
           /\ gateCall.result.bypassReason = "authenticated"
           /\ gateCall.exists = "notasked"

\* a session identity passes with no record in the store or in the map
C14_Witness ==
    /\ GateApplied
    /\ getTurnstileConfig(turnstileEnv).enabled
    /\ getTurnstileConfig(turnstileEnv).requiredForIPUsers
    /\ IsPrefix(<<"session", ":">>, gateCall.id)
    /\ getCacheKey(gateCall.id) \notin DOMAIN store
    /\ getCacheKey(gateCall.id) \notin DOMAIN verificationCache
    /\ gateCall.result.verified

\* C19: with the gate enabled, an identity the bypass rule does not exempt
\* (jwt or session while bypassAuthenticated is off, or anonymous) and
\* without a valid verification record is challenged.
C19_NotExemptRequiresChallenge ==
    LET config == getTurnstileConfig(turnstileEnv)
    IN  (/\ GateApplied
         /\ config.enabled
         /\ \/ (~config.bypassAuthenticated /\ Authenticated(gateCall.id))
            \/ gateCall.id = <<"anonymous">>
         /\ gateCall.exists # "1"
         /\ ~gateCall.memBefore)
        => ~gateCall.result.verified

C21_DisabledNeverChallenges ==
    (GateApplied /\ ~getTurnstileConfig(turnstileEnv).enabled) =>
        /\ ~isTurnstileRequired(gateCall.id, getTurnstileConfig(turnstileEnv))
        /\ gateCall.result.verified
        /\ ~gateCall.result.required
        /\ gateCall.result.bypassReason = "disabled"
        /\ gateCall.exists = "notasked"

\* the disabled gate lets an address-based identity through while the
\* store holds no record of it
C21_Witness ==
    /\ GateApplied
    /\ ~getTurnstileConfig(turnstileEnv).enabled
    /\ getTurnstileConfig(turnstileEnv).requiredForIPUsers
    /\ IsPrefix(<<"ip", ":">>, gateCall.id)
    /\ getCacheKey(gateCall.id) \notin DOMAIN store
    /\ ~gateCall.memBefore
    /\ gateCall.result.verified

\* C22: a verification recorded on this instance keeps isIdentityVerified
\* true on the same instance while the store cannot be reached, until
\* cacheDuration has elapsed since the recording.
C22_MapSurvivesStoreOutage ==
    (/\ gateCall.op = "isIdentityVerified"
     /\ gateCall.last.known
     /\ gateCall.last.here
     /\ gateCall.exists \in {"error", "noredis"}
     /\ DateNow(gateCall.at) - DateNow(gateCall.last.at)
            < getTurnstileConfig(turnstileEnv).cacheDuration)
        => gateCall.answer

\* C34: a firing of the cleanup timer removes a record from the in-process
\* map only if cacheDuration has elapsed since the record's verifiedAt.
C34_CleanupKeepsValidRecords ==
    [][cleanupAt' # cleanupAt =>
          \A k \in DOMAIN verificationCache \ DOMAIN verificationCache' :
              DateNow(now) - verificationCache[k].verifiedAt
                  >= getTurnstileConfig(turnstileEnv).cacheDuration]_vars

\* C35: on one instance, isIdentityVerified(id) answers false when id was
\* never recorded as verified or clearVerificationCache(id) has returned
\* since it last was, whether or not the delete reached the store.
C35_ClearedStaysCleared ==
    (gateCall.op = "isIdentityVerified" /\ ~gateCall.last.known) =>
        ~gateCall.answer

(***************************************************************************)
(* Properties of the client token hook.                                    *)
(***************************************************************************)
\* C37: a request carries X-Turnstile-Token only while a token is current:
\* the one setToken stored last, less than five minutes ago, with no clear
\* (clearToken, or a 403 marked verification-required) since.
C37_TokenOnlyWhileCurrent ==
    (hook.last.sent /\ "X-Turnstile-Token" \in DOMAIN hook.last.headers) =>
        /\ hook.last.setAt >= 0
        /\ hook.last.headers["X-Turnstile-Token"] = hook.last.current
        /\ DateNow(hook.last.at) - DateNow(hook.last.setAt) < tokenLifetime

(***************************************************************************)
(* Properties of the administrative user lookup.                           *)
(***************************************************************************)
\* C38: getUserDetails(k) returns the status of the identity whose key is
\* exactly k when a counter exists for k, and null when none exists; never
\* the status of another identity.
C38_DetailsOfExactKey ==
    adminView.calls > 0 =>
        IF adminView.hadCounter
        THEN adminView.found /\ adminView.identityKey = adminView.key
        ELSE ~adminView.found

(***************************************************************************)
(* Properties of the configuration provider.                               *)
(***************************************************************************)
\* C15: a call that finds the file damaged, invalid, unreadable or gone
\* after a load has succeeded returns the snapshot of the last successful
\* load; the built-in default is returned only when no load ever succeeded.
C15_LastKnownGood ==
    (cfgCall.calls >= 1 /\ cfgCall.file.state # "ok") =>
        IF cfgCall.cachedBefore.loaded
        THEN cfgCall.config = cfgCall.cachedBefore.config
        ELSE cfgCall.config = DefaultConfig

\* C16: a call that finds the file as the call before it did returns the
\* same snapshot and neither reads nor parses the file.
C16_NoSpuriousReload ==
    (cfgCall.calls >= 2 /\ cfgCall.file = cfgCall.prevFile) =>
        /\ cfgCall.config = cfgCall.prevConfig
        /\ ~cfgCall.read

\* C31: a call that finds a valid file returns the content of that file; the
\* cached snapshot changes only in a call that reads the file; and a call
\* that finds the modification time the call before it found does not read
\* the file again.
C31_LazyReload ==
    [][/\ (cfgCall'.calls >= 1 /\ cfgCall'.file.state = "ok") =>
              cfgCall'.config = cfgCall'.file.content
       /\ cachedConfig' # cachedConfig =>
              (cfgCall' # cfgCall /\ cfgCall'.read)
       /\ (cfgCall' # cfgCall /\ cfgCall'.calls >= 2
              /\ cfgCall'.file.mtime = cfgCall'.prevFile.mtime) =>
              ~cfgCall'.read]_vars

====
